---- MODULE Spec2Model ----
(***************************************************************************)
(* Model of the notification service: models.py (Notification, from_dict,  *)
(* NotificationStore, TeamsForwarder) and main.py (the request handlers).  *)
(*                                                                         *)
(* The handlers are coroutines on one event loop: a handler runs without   *)
(* interruption between two awaits, so each action below is the code       *)
(* between two awaits of one handler.                                      *)
(*                                                                         *)
(* Python values: None is PyNone, True/False are PyTrue/PyFalse; a         *)
(* timestamp is a positive integer and NoTime stands for received_at=None. *)
(* Notification objects live in `heap`, addressed by the request that      *)
(* created them; lists hold references (addresses), as in Python.          *)
(* Requests are numbered in the order in which their handlers start.       *)
(* `steps` lists, for each call of create_notification, the statements it   *)
(* has run, in the order of the code: "json" (request.json()), "from_dict", *)
(* "add" (notification_store.add), "should_forward" (the decision),         *)
(* "forward" (the call of forward), "forward_returned", "annotate" (the     *)
(* assignment to stored_notification.forwarded), "log" (the with-block on   *)
(* warning.log), "return", "raise".                                         *)
(***************************************************************************)
EXTENDS Integers, Sequences, FiniteSets, TLC

\* ---------------------------------------------------------------- bounds
MaxReqs == 3

Reqs == 1..MaxReqs

\* ---------------------------------------------------------------- values
PyNone == "None"
PyTrue == "True"
PyFalse == "False"
NoTime == 0
Absent == "<absent>"

\* bool(v) of Python for the values that occur here
Truthy(v) == v /= PyNone /\ v /= PyFalse /\ v /= "" /\ v /= Absent

Keys == {"Type", "Name", "Description"}
TypeVals == {Absent, PyNone, "", "Warning", "Info", "warning"}
NameVals == {Absent, "", "DB Error", "Deploy OK"}
DescVals == {Absent, "", "timeout"}

\* request bodies that parse to a JSON object
Dicts == {[Type |-> t, Name |-> n, Description |-> d] :
            t \in TypeVals, n \in NameVals, d \in DescVals}

\* the bodies the handlers are driven with: the two scenarios of a valid
\* event, and one body for each way from_dict can fail
Bodies == {[Type |-> "Warning", Name |-> "DB Error", Description |-> "timeout"],
           [Type |-> "Info", Name |-> "Deploy OK", Description |-> "v2 live"],
           [Type |-> Absent, Name |-> "DB Error", Description |-> "timeout"],
           [Type |-> "warning", Name |-> "DB Error", Description |-> "timeout"],
           [Type |-> "Warning", Name |-> "", Description |-> "timeout"],
           [Type |-> "Info", Name |-> "Deploy OK", Description |-> Absent]}

\* a request: its body parses to a dict, or request.json() raises
Parsed(data) == [json |-> TRUE, data |-> data]
Unparsable == [json |-> FALSE]

\* data.get(key, None)
dict_get(d, key) == IF d[key] = Absent THEN PyNone ELSE d[key]

\* ---------------------------------------------------------------- models.py
\* Notification.__init__
Notification(type, name, description, received_at, forwarded) ==
    [type |-> type, name |-> name, description |-> description,
     received_at |-> received_at, forwarded |-> forwarded]

\* from_dict that looks at the name before the type
from_dict_NameFirst(data) ==
    LET notification_type == dict_get(data, "Type")
        name == dict_get(data, "Name")
        description == dict_get(data, "Description")
    IN  IF ~Truthy(name)
          THEN [ok |-> FALSE, error |-> "Missing required field: Name"]
        ELSE IF ~Truthy(notification_type)
          THEN [ok |-> FALSE, error |-> "Missing required field: Type"]
        ELSE IF notification_type \notin {"Warning", "Info"}
          THEN [ok |-> FALSE, error |-> "Invalid type"]
        ELSE IF ~Truthy(description)
          THEN [ok |-> FALSE, error |-> "Missing required field: Description"]
        ELSE [ok |-> TRUE,
              value |-> Notification(notification_type, name, description, NoTime, PyNone)]

\* from_dict without its last check
from_dict_NoDescCheck(data) ==
    LET notification_type == dict_get(data, "Type")
        name == dict_get(data, "Name")
        description == dict_get(data, "Description")
    IN  IF ~Truthy(notification_type)
          THEN [ok |-> FALSE, error |-> "Missing required field: Type"]
        ELSE IF notification_type \notin {"Warning", "Info"}
          THEN [ok |-> FALSE, error |-> "Invalid type"]
        ELSE IF ~Truthy(name)
          THEN [ok |-> FALSE, error |-> "Missing required field: Name"]
        ELSE [ok |-> TRUE,
              value |-> Notification(notification_type, name, description, NoTime, PyNone)]

\* from_dict: the first failing check raises ValueError, else a Notification
from_dict(data) ==
    LET notification_type == dict_get(data, "Type")
        name == dict_get(data, "Name")
        description == dict_get(data, "Description")
    IN  IF ~Truthy(notification_type)
          THEN [ok |-> FALSE, error |-> "Missing required field: Type"]
        ELSE IF notification_type \notin {"Warning", "Info"}
          THEN [ok |-> FALSE, error |-> "Invalid type"]
        ELSE IF ~Truthy(name)
          THEN [ok |-> FALSE, error |-> "Missing required field: Name"]
        ELSE IF ~Truthy(description)
          THEN [ok |-> FALSE, error |-> "Missing required field: Description"]
        ELSE [ok |-> TRUE,
              value |-> Notification(notification_type, name, description, NoTime, PyNone)]

\* should_forward that lets every type through
should_forward_Always(notification) == notification.type \in {"Warning", "Info"}

\* TeamsForwarder.should_forward
should_forward(notification) == notification.type = "Warning"

\* what the POST can end in: a 2xx response, raise_for_status() raising, a
\* transport error, the 10 s timeout
HttpOutcomes == {"2xx", "bad_status", "transport_error", "timeout"}

\* forward whose timeout path ends without a return statement
forward_TimeoutReturnsNothing(outcome) ==
    IF outcome = "2xx" THEN PyTrue
    ELSE IF outcome = "timeout" THEN PyNone
    ELSE PyFalse

\* forward that only looks at the status and takes a timeout for a delivery
forward_TimeoutAccepted(outcome) == IF outcome = "bad_status" THEN PyFalse ELSE PyTrue

\* TeamsForwarder.forward: what the POST ends in decides the return value
forward(outcome) == IF outcome = "2xx" THEN PyTrue ELSE PyFalse

\* TeamsForwarder.__init__: webhook_url or os.getenv(...); raises if falsy
EnvVals == {PyNone, "", "https://hook.example"}
TeamsForwarder_init(env) ==
    IF ~Truthy(env) THEN [ok |-> FALSE] ELSE [ok |-> TRUE, webhook_url |-> env]

VARIABLES
    raw,               \* the dict handed to from_dict when it is run on its own
    validated,         \* what that call gave: <<>> before the call, else <<result>>
    started,           \* startup_event has run
    teams_forwarder,   \* main.teams_forwarder: PyNone or "TeamsForwarder"
    notifications,     \* NotificationStore._notifications: references
    heap,              \* the Notification objects, by address
    clock,             \* last reading of datetime.now(timezone.utc)
    body,              \* the request each create_notification call was given
    pc,                \* where each create_notification call is
    forwarded,         \* local `forwarded` of each create_notification call
    response,          \* what each finished create_notification returned
    forward_attempts,  \* POSTs sent to the webhook, per request
    warning_log,       \* lines of warning.log
    write_failed,      \* the calls whose write to warning.log raised
    steps,             \* the statements each create_notification call has run, in order
    snapshot,          \* the list a caller of the Store got from a read: <<>> or <<list>>
    mutations          \* how often that caller has changed what it got

vars == <<raw, validated, started, teams_forwarder, notifications, heap, clock,
          body, pc, forwarded, response, forward_attempts, warning_log, write_failed,
          steps, snapshot, mutations>>

\* from_dict on its own and a caller of the Store leave the handlers' own
\* variables alone, and the handlers leave theirs alone
validator_vars == <<raw, validated>>
caller_vars == <<snapshot, mutations>>
service_vars == <<started, teams_forwarder, notifications, heap, clock,
                  body, pc, forwarded, response, forward_attempts, warning_log,
                  write_failed, steps>>

\* ---------------------------------------------------------------- the Store
\* an add that puts the new reference in front
store_add_Prepends(ref, notification, now) ==
    [list |-> <<ref>> \o notifications,
     obj  |-> [notification EXCEPT !.received_at = now]]

\* an add that appends the reference and leaves the stamp for later
store_add_AppendsUnstamped(ref, notification, now) ==
    [list |-> Append(notifications, ref),
     obj  |-> notification]

\* NotificationStore.add: stamps the object and appends its reference
store_add(ref, notification, now) ==
    [list |-> Append(notifications, ref),
     obj  |-> [notification EXCEPT !.received_at = now]]

\* NotificationStore.get_all: a copy of the list (of references)
get_all == notifications

\* NotificationStore.get_forwarded: [n for n in ... if n.forwarded]
get_forwarded == SelectSeq(notifications, LAMBDA ref : Truthy(heap[ref].forwarded))

\* get_ignored written with `not n.forwarded`
get_ignored_NotForwarded ==
    SelectSeq(notifications, LAMBDA ref : ~Truthy(heap[ref].forwarded))

\* NotificationStore.get_ignored: [n for n in ... if n.forwarded is False]
get_ignored == SelectSeq(notifications, LAMBDA ref : heap[ref].forwarded = PyFalse)

\* NotificationStore.count
count == Len(notifications)

\* ---------------------------------------------------------------- main.py
NoInput == [Type |-> Absent, Name |-> Absent, Description |-> Absent]

InitService ==
    /\ started = FALSE
    /\ teams_forwarder = PyNone
    /\ notifications = <<>>
    /\ heap = <<>>
    /\ clock = 1
    /\ body = <<>>
    /\ pc = [r \in Reqs |-> "pending"]
    /\ forwarded = [r \in Reqs |-> PyNone]
    /\ response = <<>>
    /\ forward_attempts = [r \in Reqs |-> 0]
    /\ warning_log = <<>>
    /\ write_failed = {}
    /\ steps = [r \in Reqs |-> <<>>]
    /\ snapshot = <<>>
    /\ mutations = 0

Init ==
    /\ raw = NoInput
    /\ validated = <<>>
    /\ InitService

\* startup_event: the forwarder exists only if its constructor does not raise
startup_event(env_webhook_url) ==
    /\ ~started
    /\ started' = TRUE
    /\ teams_forwarder' = IF TeamsForwarder_init(env_webhook_url).ok
                            THEN "TeamsForwarder" ELSE teams_forwarder
    /\ UNCHANGED <<notifications, heap, clock, body, pc, forwarded, response,
                   forward_attempts, warning_log, write_failed, validator_vars, caller_vars, steps>>

\* the body of the 201 response (main.py return statement)
Created(notification, stored, fwd, tag) ==
    [code |-> 201,
     status |-> "created",
     notification |-> [type |-> notification.type,
                       name |-> notification.name,
                       description |-> notification.description,
                       received_at |-> stored.received_at],
     forwarding |-> [forwarded |-> fwd, status |-> tag]]

\* HTTPException(status_code=400, detail=...)
BadRequest(detail) == [code |-> 400, detail |-> detail]

\* the tag of the branch that does not forward
skip_status(notification) ==
    IF notification.type = "Info" THEN "skipped_info_type" ELSE "no_teams_config"

\* a log line that repeats the description where the name belongs
log_entry_NoName(stored, notification) ==
    [timestamp |-> stored.received_at,
     name |-> notification.description,
     description |-> notification.description]

\* the line appended to warning.log
log_entry(stored, notification) ==
    [timestamp |-> stored.received_at,
     name |-> notification.name,
     description |-> notification.description]

\* the test for the log write without the type
logs_warning_AnyType(notification) == teams_forwarder = PyNone

\* whether the else-branch writes to warning.log
logs_warning(notification) ==
    notification.type = "Warning" /\ teams_forwarder = PyNone

\* the forwarding decision of create_notification
decide(notification) ==
    teams_forwarder /= PyNone /\ should_forward(notification)

\* the tags of a forward attempt the wrong way round
forward_status_Swapped(fwd) == IF Truthy(fwd) THEN "failed" ELSE "success"

\* the tag after a forward attempt
forward_status(fwd) == IF Truthy(fwd) THEN "success" ELSE "failed"

\* a handler that cannot start while another one awaits its forward call
Arrives_WaitsForForward(r) ==
    /\ started
    /\ pc[r] = "pending"
    /\ \A q \in Reqs : q < r => pc[q] \notin {"pending", "forwarding"}

\* the server is up and request r is the next to be handled
Arrives(r) ==
    /\ started
    /\ pc[r] = "pending"
    /\ \A q \in Reqs : q < r => pc[q] /= "pending"

\* datetime.now(timezone.utc): the last reading or a later one
Readings == {clock, clock + 1}

\* create_notification, request.json() raises
RejectJSON(r) ==
    /\ Arrives(r)
    /\ body' = (r :> Unparsable) @@ body
    /\ pc' = [pc EXCEPT ![r] = "rejected"]
    /\ response' = (r :> BadRequest("Invalid JSON")) @@ response
    /\ steps' = [steps EXCEPT ![r] = <<"json", "raise">>]
    /\ UNCHANGED <<started, teams_forwarder, notifications, heap, clock, forwarded,
                   forward_attempts, warning_log, write_failed, validator_vars, caller_vars>>

\* a handler that stores what it was given before it validates it
RejectInvalid_StoresFirst(r, data) ==
    /\ Arrives(r)
    /\ ~from_dict(data).ok
    /\ body' = (r :> Parsed(data)) @@ body
    /\ pc' = [pc EXCEPT ![r] = "rejected"]
    /\ response' = (r :> BadRequest(from_dict(data).error)) @@ response
    /\ notifications' = Append(notifications, r)
    /\ heap' = (r :> Notification(dict_get(data, "Type"), dict_get(data, "Name"),
                                 dict_get(data, "Description"), clock, PyNone)) @@ heap
    /\ steps' = [steps EXCEPT ![r] = <<"json", "add", "from_dict", "raise">>]
    /\ UNCHANGED <<started, teams_forwarder, clock, forwarded,
                   forward_attempts, warning_log, write_failed, validator_vars, caller_vars>>

\* create_notification, from_dict raises ValueError
RejectInvalid(r, data) ==
    /\ Arrives(r)
    /\ ~from_dict(data).ok
    /\ body' = (r :> Parsed(data)) @@ body
    /\ pc' = [pc EXCEPT ![r] = "rejected"]
    /\ response' = (r :> BadRequest(from_dict(data).error)) @@ response
    /\ steps' = [steps EXCEPT ![r] = <<"json", "from_dict", "raise">>]
    /\ UNCHANGED <<started, teams_forwarder, notifications, heap, clock, forwarded,
                   forward_attempts, warning_log, write_failed, validator_vars, caller_vars>>

\* a handler that marks the event not forwarded before it awaits forward()
StartForward_PreAnnotates(r, data, now) ==
    /\ Arrives(r)
    /\ from_dict(data).ok
    /\ LET notification == from_dict(data).value
           added == store_add(r, notification, now)
       IN  /\ decide(added.obj)
           /\ notifications' = added.list
           /\ heap' = (r :> [added.obj EXCEPT !.forwarded = PyFalse]) @@ heap
           /\ clock' = now
           /\ forwarded' = [forwarded EXCEPT ![r] = PyFalse]
           /\ forward_attempts' = [forward_attempts EXCEPT ![r] = @ + 1]
    /\ body' = (r :> Parsed(data)) @@ body
    /\ pc' = [pc EXCEPT ![r] = "forwarding"]
    /\ steps' = [steps EXCEPT ![r] = <<"json", "from_dict", "add", "should_forward", "annotate", "forward">>]
    /\ UNCHANGED <<started, teams_forwarder, response, warning_log, write_failed,
                   validator_vars, caller_vars>>

\* create_notification up to the await of forward(): validate, store, decide,
\* and the POST leaves
StartForward(r, data, now) ==
    /\ Arrives(r)
    /\ from_dict(data).ok
    /\ LET notification == from_dict(data).value
           added == store_add(r, notification, now)
       IN  /\ decide(added.obj)
           /\ notifications' = added.list
           /\ heap' = (r :> added.obj) @@ heap
           /\ clock' = now
           /\ forwarded' = [forwarded EXCEPT ![r] = PyFalse]
           /\ forward_attempts' = [forward_attempts EXCEPT ![r] = @ + 1]
    /\ body' = (r :> Parsed(data)) @@ body
    /\ pc' = [pc EXCEPT ![r] = "forwarding"]
    /\ steps' = [steps EXCEPT ![r] = <<"json", "from_dict", "add", "should_forward", "forward">>]
    /\ UNCHANGED <<started, teams_forwarder, response, warning_log, write_failed,
                   validator_vars, caller_vars>>

\* a handler with no try around the write to warning.log: a failing write
\* ends the request with a 500
StoreOnly_WriteFaultPropagates(r, data, now, write_ok) ==
    /\ Arrives(r)
    /\ from_dict(data).ok
    /\ LET notification == from_dict(data).value
           added == store_add(r, notification, now)
           stored == [added.obj EXCEPT !.forwarded = PyFalse]
           raised == logs_warning(stored) /\ ~write_ok
       IN  /\ ~decide(added.obj)
           /\ logs_warning(stored) \/ write_ok
           /\ notifications' = added.list
           /\ heap' = (r :> stored) @@ heap
           /\ clock' = now
           /\ forwarded' = [forwarded EXCEPT ![r] = PyFalse]
           /\ warning_log' = IF logs_warning(stored) /\ write_ok
                               THEN Append(warning_log, log_entry(stored, stored))
                               ELSE warning_log
           /\ write_failed' = IF raised THEN write_failed \cup {r} ELSE write_failed
           /\ steps' = [steps EXCEPT ![r] =
                           <<"json", "from_dict", "add", "should_forward", "annotate">>
                           \o (IF logs_warning(stored) THEN <<"log">> ELSE <<>>)
                           \o (IF raised THEN <<"raise">> ELSE <<"return">>)]
           /\ response' = (r :> IF raised
                                  THEN [code |-> 500, detail |-> "Internal Server Error"]
                                  ELSE Created(stored, stored, PyFalse, skip_status(stored)))
                          @@ response
    /\ body' = (r :> Parsed(data)) @@ body
    /\ pc' = [pc EXCEPT ![r] = "created"]
    /\ UNCHANGED <<started, teams_forwarder, forward_attempts, validator_vars, caller_vars>>

\* create_notification when nothing is forwarded: validate, store, decide,
\* annotate, write warning.log (the write may raise, which is swallowed), return
StoreOnly(r, data, now, write_ok) ==
    /\ Arrives(r)
    /\ from_dict(data).ok
    /\ LET notification == from_dict(data).value
           added == store_add(r, notification, now)
           stored == [added.obj EXCEPT !.forwarded = PyFalse]
       IN  /\ ~decide(added.obj)
           /\ logs_warning(stored) \/ write_ok    \* no write, nothing to fail
           /\ notifications' = added.list
           /\ heap' = (r :> stored) @@ heap
           /\ clock' = now
           /\ forwarded' = [forwarded EXCEPT ![r] = PyFalse]
           /\ warning_log' = IF logs_warning(stored) /\ write_ok
                               THEN Append(warning_log, log_entry(stored, stored))
                               ELSE warning_log
           /\ write_failed' = IF logs_warning(stored) /\ ~write_ok
                                THEN write_failed \cup {r} ELSE write_failed
           /\ steps' = [steps EXCEPT ![r] =
                           <<"json", "from_dict", "add", "should_forward", "annotate">>
                           \o (IF logs_warning(stored) THEN <<"log">> ELSE <<>>)
                           \o <<"return">>]
           /\ response' = (r :> Created(stored, stored, PyFalse, skip_status(stored)))
                          @@ response
    /\ body' = (r :> Parsed(data)) @@ body
    /\ pc' = [pc EXCEPT ![r] = "created"]
    /\ UNCHANGED <<started, teams_forwarder, forward_attempts, validator_vars, caller_vars>>

\* forward(): the POST ends; the coroutine has its return value
ForwardReturns(r, outcome) ==
    /\ pc[r] = "forwarding"
    /\ forwarded' = [forwarded EXCEPT ![r] = forward(outcome)]
    /\ pc' = [pc EXCEPT ![r] = "annotating"]
    /\ steps' = [steps EXCEPT ![r] = Append(@, "forward_returned")]
    /\ UNCHANGED <<started, teams_forwarder, notifications, heap, clock, body,
                   response, forward_attempts, warning_log, write_failed,
                   validator_vars, caller_vars>>

\* a handler that puts its event back into the Store when it annotates it
Annotate_ReAdds(r) ==
    /\ pc[r] = "annotating"
    /\ heap' = [heap EXCEPT ![r].forwarded = forwarded[r]]
    /\ notifications' = IF \E i \in DOMAIN notifications : notifications[i] = r
                          THEN notifications ELSE Append(notifications, r)
    /\ response' = (r :> Created(heap[r], heap[r], forwarded[r],
                                 forward_status(forwarded[r]))) @@ response
    /\ pc' = [pc EXCEPT ![r] = "created"]
    /\ steps' = [steps EXCEPT ![r] = @ \o <<"annotate", "return">>]
    /\ UNCHANGED <<started, teams_forwarder, clock, body, forwarded,
                   forward_attempts, warning_log, write_failed, validator_vars, caller_vars>>

\* a handler that goes on after the await only while its event is in the Store
Annotate_LosesCleared(r) ==
    /\ pc[r] = "annotating"
    /\ \E i \in DOMAIN notifications : notifications[i] = r
    /\ heap' = [heap EXCEPT ![r].forwarded = forwarded[r]]
    /\ response' = (r :> Created(heap[r], heap[r], forwarded[r],
                                 forward_status(forwarded[r]))) @@ response
    /\ pc' = [pc EXCEPT ![r] = "created"]
    /\ steps' = [steps EXCEPT ![r] = @ \o <<"annotate", "return">>]
    /\ UNCHANGED <<started, teams_forwarder, notifications, clock, body, forwarded,
                   forward_attempts, warning_log, write_failed, validator_vars, caller_vars>>

\* a handler that returns after the await without writing the flag
Annotate_ReturnsUnannotated(r) ==
    /\ pc[r] = "annotating"
    /\ response' = (r :> Created(heap[r], heap[r], forwarded[r],
                                 forward_status(forwarded[r]))) @@ response
    /\ pc' = [pc EXCEPT ![r] = "created"]
    /\ steps' = [steps EXCEPT ![r] = @ \o <<"return">>]
    /\ UNCHANGED <<started, teams_forwarder, notifications, heap, clock, body, forwarded,
                   forward_attempts, warning_log, write_failed, validator_vars, caller_vars>>

\* create_notification after the await: annotate and return
Annotate(r) ==
    /\ pc[r] = "annotating"
    /\ heap' = [heap EXCEPT ![r].forwarded = forwarded[r]]
    /\ response' = (r :> Created(heap[r], heap[r], forwarded[r],
                                 forward_status(forwarded[r]))) @@ response
    /\ pc' = [pc EXCEPT ![r] = "created"]
    /\ steps' = [steps EXCEPT ![r] = @ \o <<"annotate", "return">>]
    /\ UNCHANGED <<started, teams_forwarder, notifications, clock, body, forwarded,
                   forward_attempts, warning_log, write_failed, validator_vars, caller_vars>>

\* a clear that spares the events whose forwarding is still open
clear_notifications_KeepsUnannotated ==
    /\ started
    /\ notifications' = SelectSeq(notifications,
                                  LAMBDA ref : heap[ref].forwarded = PyNone)
    /\ UNCHANGED <<started, teams_forwarder, heap, clock, body, pc, forwarded,
                   response, forward_attempts, warning_log, write_failed,
                   validator_vars, caller_vars, steps>>

\* clear_notifications -> NotificationStore.clear
clear_notifications ==
    /\ started
    /\ notifications' = <<>>
    /\ UNCHANGED <<started, teams_forwarder, heap, clock, body, pc, forwarded,
                   response, forward_attempts, warning_log, write_failed,
                   validator_vars, caller_vars, steps>>

\* list_notifications: a read-only handler, a function of the Store's state
Filters == {PyNone, "forwarded", "ignored", "warnings"}

Listing(filter, refs) ==
    [code |-> 200,
     total |-> Len(refs),
     filter |-> IF Truthy(filter) THEN filter ELSE "all",
     notifications |-> [i \in DOMAIN refs |->
                          [type |-> heap[refs[i]].type,
                           name |-> heap[refs[i]].name,
                           description |-> heap[refs[i]].description,
                           received_at |-> heap[refs[i]].received_at,
                           forwarded |-> heap[refs[i]].forwarded]]]

list_notifications(filter) ==
    IF filter = "forwarded" THEN Listing(filter, get_forwarded)
    ELSE IF filter = "ignored" THEN Listing(filter, get_ignored)
    ELSE IF filter = PyNone THEN Listing(filter, get_all)
    ELSE BadRequest("Invalid filter")

\* statistics that count as ignored whatever is not forwarded
get_statistics_IgnoredByNot ==
    [total |-> Len(get_all),
     forwarded |-> Len(SelectSeq(get_all, LAMBDA ref : Truthy(heap[ref].forwarded))),
     ignored |-> Len(SelectSeq(get_all, LAMBDA ref : ~Truthy(heap[ref].forwarded)))]

\* get_statistics: a read-only handler, counts over get_all()
get_statistics ==
    [total |-> Len(get_all),
     forwarded |-> Len(SelectSeq(get_all, LAMBDA ref : Truthy(heap[ref].forwarded))),
     ignored |-> Len(SelectSeq(get_all, LAMBDA ref : heap[ref].forwarded = PyFalse))]

Next ==
    \/ \E env_webhook_url \in EnvVals : startup_event(env_webhook_url)
    \/ \E r \in Reqs : RejectJSON(r)
    \/ \E r \in Reqs, data \in Bodies : RejectInvalid(r, data)
    \/ \E r \in Reqs, data \in Bodies, now \in Readings : StartForward(r, data, now)
    \/ \E r \in Reqs, data \in Bodies, now \in Readings, write_ok \in BOOLEAN :
          StoreOnly(r, data, now, write_ok)
    \/ \E r \in Reqs, outcome \in HttpOutcomes : ForwardReturns(r, outcome)
    \/ \E r \in Reqs : Annotate(r)
    \/ clear_notifications

Spec == Init /\ [][Next]_vars

\* every forward call returns (httpx response, error or the 10 s timeout) and
\* the event loop resumes the coroutine that awaited it
Fairness ==
    \A r \in Reqs :
        /\ WF_vars(\E outcome \in HttpOutcomes : ForwardReturns(r, outcome))
        /\ WF_vars(Annotate(r))

SpecFair == Init /\ [][Next]_vars /\ Fairness

\* ---------------------------------------------------------------- from_dict alone
InitValidate ==
    /\ raw \in Dicts
    /\ validated = <<>>
    /\ InitService

\* one call of from_dict(raw)
Validate ==
    /\ validated = <<>>
    /\ validated' = <<from_dict(raw)>>
    /\ UNCHANGED <<raw, service_vars, caller_vars>>

NextValidate == Validate

SpecValidate == InitValidate /\ [][NextValidate]_vars

\* ---------------------------------------------------------------- a caller of the Store
MaxMutations == 1

StoreReads == {"get_all", "get_forwarded", "get_ignored"}

\* what the read returns: a new list of the same references
store_read(which) ==
    IF which = "get_all" THEN get_all
    ELSE IF which = "get_forwarded" THEN get_forwarded
    ELSE get_ignored

\* a caller keeps the list a read returned
TakeSnapshot(which) ==
    /\ started
    /\ snapshot = <<>>
    /\ snapshot' = <<store_read(which)>>
    /\ UNCHANGED <<service_vars, validator_vars, mutations>>

\* the caller removes the first element of the list it holds
MutateSnapshotList ==
    /\ snapshot /= <<>>
    /\ snapshot[1] /= <<>>
    /\ mutations < MaxMutations
    /\ snapshot' = <<Tail(snapshot[1])>>
    /\ mutations' = mutations + 1
    /\ UNCHANGED <<service_vars, validator_vars>>

\* the caller assigns to an attribute of a Notification in the list it holds:
\* the list holds the Store's own objects
MutateSnapshotEvent(i, attr, value) ==
    /\ snapshot /= <<>>
    /\ i \in DOMAIN snapshot[1]
    /\ mutations < MaxMutations
    /\ heap' = [heap EXCEPT ![snapshot[1][i]][attr] = value]
    /\ mutations' = mutations + 1
    /\ UNCHANGED <<started, teams_forwarder, notifications, clock, body, pc,
                   forwarded, response, forward_attempts, warning_log, write_failed,
                   validator_vars, snapshot, steps>>

NextSnapshot ==
    \/ Next
    \/ \E which \in StoreReads : TakeSnapshot(which)
    \/ MutateSnapshotList
    \/ \E i \in Reqs, value \in {PyTrue, PyFalse} : MutateSnapshotEvent(i, "forwarded", value)
    \/ \E i \in Reqs : MutateSnapshotEvent(i, "name", "renamed")

SpecSnapshot == Init /\ [][NextSnapshot]_vars

\* ================================================================ properties
\* what the specification asks of an input: a recognized severity, and a
\* name and a description that are present and not empty
WellFormed(d) ==
    /\ d.Type \in {"Warning", "Info"}
    /\ d.Name \notin {Absent, PyNone, ""}
    /\ d.Description \notin {Absent, PyNone, ""}

\* request r was given a valid input of the severity
ValidInput(r, severity) ==
    /\ r \in DOMAIN body
    /\ body[r].json
    /\ WellFormed(body[r].data)
    /\ body[r].data.Type = severity

\* the ingestion of r has returned 201 with this forwarding result
Completed(r, flag, tag) ==
    /\ pc[r] = "created"
    /\ response[r].code = 201
    /\ response[r].status = "created"
    /\ response[r].forwarding = [forwarded |-> flag, status |-> tag]

\* the lines of warning.log that are the audit entry of event r
AuditLines(r) ==
    {i \in DOMAIN warning_log :
        /\ warning_log[i].name = heap[r].name
        /\ warning_log[i].description = heap[r].description
        /\ warning_log[i].timestamp = heap[r].received_at}

\* C1: a valid Warning whose forward call returned true, with a Forwarder
\* available, ends with the event's forwarded flag true and the tag `success`.
C1_WarningForwarded ==
    \A r \in Reqs :
        (/\ ValidInput(r, "Warning")
         /\ teams_forwarder /= PyNone
         /\ pc[r] = "created"
         /\ forwarded[r] = PyTrue)
        => /\ heap[r].forwarded = PyTrue
           /\ Completed(r, PyTrue, "success")

C1_Witness ==
    \E r \in Reqs :
        /\ ValidInput(r, "Warning")
        /\ teams_forwarder /= PyNone
        /\ pc[r] = "created"
        /\ forwarded[r] = PyTrue
        /\ notifications = <<r>>

\* C2: a valid Info ends with the event's forwarded flag false and the tag
\* `skipped_info_type`, with a Forwarder available and with none configured.
C2_InfoSkipped ==
    \A r \in Reqs :
        ValidInput(r, "Info")
        => /\ heap[r].forwarded = PyFalse
           /\ forward_attempts[r] = 0
           /\ Completed(r, PyFalse, "skipped_info_type")

C2_Witness ==
    \E r, q \in Reqs :
        /\ ValidInput(r, "Info")
        /\ teams_forwarder /= PyNone
        /\ pc[r] = "created"
        /\ ValidInput(q, "Warning")
        /\ pc[q] = "forwarding"

\* C3 as claimed: a valid Warning with no Forwarder configured ends with the
\* flag false, the tag `no_forwarder_configured` and one audit entry with the
\* event's name and description in the side log.
C3_AsClaimed ==
    \A r \in Reqs :
        (ValidInput(r, "Warning") /\ teams_forwarder = PyNone)
        => /\ heap[r].forwarded = PyFalse
           /\ Completed(r, PyFalse, "no_forwarder_configured")
           /\ Cardinality(AuditLines(r)) >= 1

\* C3 amended: a valid Warning with no Forwarder configured ends with the flag
\* false and the tag `no_teams_config`; unless the write to the side log
\* raised, the log holds an audit entry with the event's timestamp, name and
\* description, and the log has one line for each such event.
C3_NoForwarderAudit ==
    /\ \A r \in Reqs :
        (ValidInput(r, "Warning") /\ teams_forwarder = PyNone)
        => /\ heap[r].forwarded = PyFalse
           /\ Completed(r, PyFalse, "no_teams_config")
           /\ r \notin write_failed => Cardinality(AuditLines(r)) >= 1
    /\ teams_forwarder = PyNone
        => Len(warning_log) =
             Cardinality({r \in Reqs : ValidInput(r, "Warning") /\ r \notin write_failed})

C3_Witness ==
    \E r \in Reqs :
        /\ ValidInput(r, "Warning")
        /\ teams_forwarder = PyNone
        /\ pc[r] = "created"
        /\ warning_log = <<[timestamp |-> heap[r].received_at,
                            name |-> "DB Error", description |-> "timeout"]>>

\* C4: when the forward call of a valid Warning fails (any outcome of the POST
\* but a 2xx: forward returns false), the ingestion still returns 201, the
\* event stays in the Store, its flag is false and the tag is `failed`.
C4_ForwardFailureAbsorbed ==
    [][\A r \in Reqs :
          /\ \A outcome \in HttpOutcomes \ {"2xx"} :
                (pc[r] = "forwarding" /\ ForwardReturns(r, outcome))
                => forwarded'[r] = PyFalse
          /\ (/\ ValidInput(r, "Warning")
              /\ pc[r] = "annotating" /\ forwarded[r] = PyFalse
              /\ pc'[r] /= "annotating")
             => /\ notifications' = notifications
                /\ heap'[r].forwarded = PyFalse
                /\ pc'[r] = "created"
                /\ response'[r].code = 201
                /\ response'[r].forwarding = [forwarded |-> PyFalse, status |-> "failed"]
      ]_vars

C4_Witness ==
    \E r \in Reqs :
        /\ ValidInput(r, "Warning")
        /\ pc[r] = "created"
        /\ forwarded[r] = PyFalse
        /\ forward_attempts[r] = 1
        /\ response[r].forwarding.status = "failed"
        /\ notifications = <<r>>

C6_ValidateAcceptsExactlyWellFormed ==
    validated /= <<>>
    => /\ validated[1].ok <=> WellFormed(raw)
       /\ validated[1].ok
            => validated[1].value =
                 [type |-> raw.Type, name |-> raw.Name, description |-> raw.Description,
                  received_at |-> NoTime, forwarded |-> PyNone]

C6_Witness ==
    /\ validated /= <<>>
    /\ validated[1].ok
    /\ raw = [Type |-> "Info", Name |-> "Deploy OK", Description |-> "timeout"]

\* the references in the Store whose flag is the given value
WithFlag(value) ==
    {notifications[i] : i \in {j \in DOMAIN notifications :
                                  heap[notifications[j]].forwarded = value}}

\* view holds exactly the references of the set, once each, in the Store's order
InStoreOrder(view, refs) ==
    /\ {view[i] : i \in DOMAIN view} = refs
    /\ Len(view) = Cardinality(refs)
    /\ \A i, j \in DOMAIN view :
          i < j => \E k, l \in DOMAIN notifications :
                      k < l /\ notifications[k] = view[i] /\ notifications[l] = view[j]

\* C7: forwarded() is exactly the stored events whose flag is true and
\* ignored() exactly those whose flag is false, both in insertion order and
\* disjoint; an event whose flag is unset is in all() and in neither; the
\* listings with a filter show the same.
C7_FilteredViews ==
    /\ InStoreOrder(get_forwarded, WithFlag(PyTrue))
    /\ InStoreOrder(get_ignored, WithFlag(PyFalse))
    /\ get_all = notifications
    /\ \A i \in DOMAIN get_forwarded, j \in DOMAIN get_ignored :
          get_forwarded[i] /= get_ignored[j]
    /\ \A ref \in WithFlag(PyNone) :
          /\ \E i \in DOMAIN get_all : get_all[i] = ref
          /\ \A i \in DOMAIN get_forwarded : get_forwarded[i] /= ref
          /\ \A i \in DOMAIN get_ignored : get_ignored[i] /= ref
    /\ list_notifications("forwarded").total = Cardinality(WithFlag(PyTrue))
    /\ list_notifications("ignored").total = Cardinality(WithFlag(PyFalse))
    /\ \A n \in {list_notifications("forwarded").notifications[i] :
                   i \in DOMAIN list_notifications("forwarded").notifications} :
          n.forwarded = PyTrue
    /\ \A n \in {list_notifications("ignored").notifications[i] :
                   i \in DOMAIN list_notifications("ignored").notifications} :
          n.forwarded = PyFalse

\* two Warnings, one forwarded and one failed, and one Info: the forwarded
\* filter shows the one that succeeded
C7_Witness ==
    \E a, b, c \in Reqs :
        /\ notifications = <<a, b, c>>
        /\ ValidInput(a, "Warning") /\ Completed(a, PyTrue, "success")
        /\ ValidInput(b, "Warning") /\ Completed(b, PyFalse, "failed")
        /\ ValidInput(c, "Info") /\ Completed(c, PyFalse, "skipped_info_type")
        /\ get_forwarded = <<a>>
        /\ list_notifications("forwarded").total = 1

\* what the three reads of the Store show: the events' values, in order
Contents(refs) == [i \in DOMAIN refs |-> heap[refs[i]]]
StoreShows ==
    [all |-> Contents(get_all),
     forwarded |-> Contents(get_forwarded),
     ignored |-> Contents(get_ignored)]

\* C8: a caller changing a list it got from a read, or an event in it, does
\* not change what the Store's reads return.
C8_SnapshotsIndependent ==
    [][mutations' /= mutations => StoreShows' = StoreShows]_vars

\* C9: an event's flag is unset exactly while its forwarding decision is open,
\* and once it is true or false it stays as it is and the event is not
\* forwarded again.
C9_FlagWrittenOnce ==
    [][\A r \in Reqs :
          /\ (r \in DOMAIN heap /\ heap[r].forwarded /= PyNone)
             => /\ r \in DOMAIN heap'
                /\ heap'[r].forwarded = heap[r].forwarded
                /\ forward_attempts'[r] = forward_attempts[r]
          /\ r \in DOMAIN heap'
             => /\ heap'[r].forwarded \in {PyNone, PyTrue, PyFalse}
                /\ heap'[r].forwarded = PyNone <=> pc'[r] \in {"forwarding", "annotating"}
      ]_vars

C9_Witness ==
    \E r, q \in Reqs :
        /\ pc[r] = "created" /\ heap[r].forwarded = PyTrue
        /\ pc[q] = "annotating" /\ heap[q].forwarded = PyNone /\ forwarded[q] = PyFalse
        /\ notifications = <<>>

\* C10: the webhook is called for an event only if it is a Warning and a
\* Forwarder is available, and at most once; for an Info there is no call and
\* no audit line; every audit line belongs to a Warning handled with no
\* Forwarder.
C10_ForwardAndAuditOnlyWhenDue ==
    /\ \A r \in Reqs :
          /\ forward_attempts[r] <= 1
          /\ forward_attempts[r] = 1
               => ValidInput(r, "Warning") /\ teams_forwarder /= PyNone
          /\ ValidInput(r, "Info")
               => forward_attempts[r] = 0 /\ AuditLines(r) = {}
    /\ \A i \in DOMAIN warning_log :
          \E r \in Reqs :
             ValidInput(r, "Warning") /\ teams_forwarder = PyNone /\ i \in AuditLines(r)
    /\ Len(warning_log) <= Cardinality({r \in Reqs : ValidInput(r, "Warning")})

C10_Witness ==
    \E r, q \in Reqs :
        /\ ValidInput(r, "Info") /\ pc[r] = "created"
        /\ ValidInput(q, "Warning") /\ pc[q] = "created"
        /\ teams_forwarder = PyNone
        /\ Len(warning_log) = 1
        /\ AuditLines(q) = {1}
        /\ \A x \in Reqs : forward_attempts[x] = 0


\* every read of the Store comes back empty
StoreEmpty ==
    /\ count = 0
    /\ get_all = <<>>
    /\ get_forwarded = <<>>
    /\ get_ignored = <<>>
    /\ \A filter \in {PyNone, "forwarded", "ignored"} : list_notifications(filter).total = 0
    /\ get_statistics = [total |-> 0, forwarded |-> 0, ignored |-> 0]

\* C11: after a clear, whatever ingestions are in flight, count() is 0 and
\* all(), forwarded() and ignored() are empty, and they stay so until the next
\* add; a clear of an empty Store leaves it empty.
C11_ClearEmptiesUntilNextAdd ==
    [][/\ clear_notifications => StoreEmpty'
       /\ (StoreEmpty /\ DOMAIN heap' = DOMAIN heap) => StoreEmpty'
      ]_vars

\* an event was added, the Store is empty again, and its ingestion goes on
C11_Witness ==
    \E r, q \in Reqs :
        /\ r \in DOMAIN heap /\ pc[r] = "created" /\ heap[r].forwarded = PyTrue
        /\ q \in DOMAIN heap /\ pc[q] = "annotating"
        /\ StoreEmpty

\* C12: the statistics give total = count(), forwarded = the stored events
\* with flag true, ignored = those with flag false; forwarded + ignored <=
\* total, and less than total exactly when a stored event's flag is unset.
C12_Statistics ==
    /\ get_statistics.total = count
    /\ get_statistics.forwarded = Cardinality(WithFlag(PyTrue))
    /\ get_statistics.ignored = Cardinality(WithFlag(PyFalse))
    /\ get_statistics.forwarded + get_statistics.ignored <= get_statistics.total
    /\ get_statistics.forwarded + get_statistics.ignored < get_statistics.total
         <=> WithFlag(PyNone) /= {}

C12_Witness ==
    /\ get_statistics = [total |-> 3, forwarded |-> 1, ignored |-> 1]
    /\ \E r \in Reqs : pc[r] = "forwarding" /\ notifications[3] = r


\* the event behind a reference is whole: validated fields and a timestamp
WholeEvent(n) ==
    /\ n.type \in {"Warning", "Info"}
    /\ Truthy(n.name)
    /\ Truthy(n.description)
    /\ n.received_at /= NoTime

\* C13: with the handlers running concurrently on the event loop, add is one
\* step (timestamp and append together) and clear another: every event a
\* reader can see is whole and has its received_at, and each step leaves the
\* Store's list as it was, longer by one whole event, or empty, so a reader
\* sees the contents before a clear or the empty Store after it, never a part.
C13_StoreStepsAreWhole ==
    [][/\ \/ notifications' = notifications
          \/ notifications' = <<>>
          \/ \E r \in Reqs :
                /\ r \notin DOMAIN heap
                /\ notifications' = Append(notifications, r)
       /\ \A i \in DOMAIN notifications' :
             /\ notifications'[i] \in DOMAIN heap'
             /\ WholeEvent(heap'[notifications'[i]])
       /\ \A filter \in {PyNone, "forwarded", "ignored"} :
             \A i \in DOMAIN list_notifications(filter).notifications' :
                list_notifications(filter).notifications'[i].received_at /= NoTime
      ]_vars

\* two ingestions in flight at once, both events whole in the Store
C13_Witness ==
    \E r, q \in Reqs :
        /\ pc[r] = "forwarding" /\ pc[q] = "forwarding"
        /\ notifications = <<r, q>>
        /\ WholeEvent(heap[r]) /\ WholeEvent(heap[q])
        /\ list_notifications(PyNone).total = 2

\* some handler can take request q now
CanStart(q) ==
    \/ ENABLED RejectJSON(q)
    \/ ENABLED (\E data \in Bodies : RejectInvalid(q, data))
    \/ ENABLED (\E data \in Bodies, now \in Readings : StartForward(q, data, now))
    \/ ENABLED (\E data \in Bodies, now \in Readings, write_ok \in BOOLEAN :
                  StoreOnly(q, data, now, write_ok))

\* C14: while the forward call of one ingestion is in flight the Store is
\* free: the next ingestion can start and add, clear can run, the reads
\* answer; and the flag of the in-flight event is not written before its
\* forward call has returned.
C14_StoreFreeWhileForwarding ==
    [][\A r \in Reqs :
          pc[r] = "forwarding"
          => /\ ENABLED clear_notifications
             /\ \A q \in Reqs :
                   (pc[q] = "pending" /\ \A p \in Reqs : p < q => pc[p] /= "pending")
                   => CanStart(q)
             /\ list_notifications(PyNone).code = 200
             /\ get_statistics.total = count
             /\ heap[r].forwarded = PyNone
             /\ heap'[r].forwarded = PyNone
      ]_vars

\* request 1 still awaits its forward call; meanwhile the Store was cleared
\* and request 2 was added and answered
C14_Witness ==
    \E r, q \in Reqs :
        /\ r < q
        /\ pc[r] = "forwarding"
        /\ pc[q] = "created"
        /\ notifications = <<q>>
        /\ heap[r].forwarded = PyNone


\* C15: adds with no clear between them leave all() holding every added
\* event once, in the order of the add calls (requests are numbered in that
\* order); received_at is set when the Store accepts the event, never again,
\* and does not decrease along the sequence.
C15_InsertionOrder ==
    [][/\ \A r \in DOMAIN heap :
             /\ r \in DOMAIN heap'
             /\ heap'[r].received_at = heap[r].received_at
       /\ \A r \in DOMAIN heap' \ DOMAIN heap :
             /\ get_all' = Append(get_all, r)
             /\ heap'[r].received_at /= NoTime
             /\ \A i \in DOMAIN get_all :
                   heap[get_all[i]].received_at <= heap'[r].received_at
       /\ DOMAIN heap' = DOMAIN heap => (get_all' = get_all \/ get_all' = <<>>)
       /\ \A i, j \in DOMAIN get_all' :
             i < j => /\ get_all'[i] < get_all'[j]
                      /\ heap'[get_all'[i]].received_at <= heap'[get_all'[j]].received_at
      ]_vars

\* three adds and no clear: two within one reading of the clock, one later
C15_Witness ==
    /\ MaxReqs >= 3
    /\ get_all = <<1, 2, 3>>
    /\ heap[1].received_at = heap[2].received_at
    /\ heap[2].received_at < heap[3].received_at


\* how often a statement occurs among the steps of call r
Times(r, step) == Cardinality({i \in DOMAIN steps[r] : steps[r][i] = step})

\* C16: when the write to the side log fails for a Warning handled with no
\* Forwarder, the ingestion still returns 201, the event is stored with its
\* flag false, no line is appended, and the write is attempted once only,
\* then and later.
C16_AuditFaultAbsorbed ==
    [][\A r \in Reqs :
          /\ (r \in write_failed' /\ r \notin write_failed)
             => /\ ValidInput(r, "Warning")' /\ teams_forwarder = PyNone
                /\ notifications' = Append(notifications, r)
                /\ heap'[r].forwarded = PyFalse
                /\ Completed(r, PyFalse, "no_teams_config")'
                /\ warning_log' = warning_log
                /\ Times(r, "log")' = 1
          /\ r \in write_failed
             => /\ r \in write_failed'
                /\ steps'[r] = steps[r]
                /\ response'[r] = response[r]
                /\ heap'[r] = heap[r]
                /\ warning_log' /= warning_log
                     => \E q \in Reqs \ {r} : pc[q] = "pending" /\ Times(q, "log")' = 1
      ]_vars

\* the write failed for the one Warning there is: it is stored, answered, and
\* the log is empty
C16_Witness ==
    \E r \in Reqs :
        /\ write_failed = {r}
        /\ notifications = <<r>>
        /\ Completed(r, PyFalse, "no_teams_config")
        /\ heap[r].forwarded = PyFalse
        /\ warning_log = <<>>


\* the rules of the specification, in its order: 1 severity presence,
\* 2 severity validity, 3 name presence, 4 description presence
Rules == 1..4
Violates(d, rule) ==
    IF rule = 1 THEN d.Type \in {Absent, PyNone, ""}
    ELSE IF rule = 2 THEN d.Type \notin {"Warning", "Info"}
    ELSE IF rule = 3 THEN d.Name \in {Absent, PyNone, ""}
    ELSE d.Description \in {Absent, PyNone, ""}

\* the failure that reports a rule, and the field it names
FailureOf(rule) ==
    IF rule = 1 THEN [error |-> "Missing required field: Type", field |-> "Type"]
    ELSE IF rule = 2 THEN [error |-> "Invalid type", field |-> "Type"]
    ELSE IF rule = 3 THEN [error |-> "Missing required field: Name", field |-> "Name"]
    ELSE [error |-> "Missing required field: Description", field |-> "Description"]

FirstViolated(d) ==
    CHOOSE rule \in Rules :
        Violates(d, rule) /\ \A other \in Rules : Violates(d, other) => rule <= other

\* C17: for an input that violates a rule, and so for one that violates
\* several, from_dict reports the one failure of the first violated rule in
\* the order severity presence, severity validity, name presence, description
\* presence, and that failure names the field of that rule.
C17_FirstViolationWins ==
    (validated /= <<>> /\ \E rule \in Rules : Violates(raw, rule))
    => /\ ~validated[1].ok
       /\ validated[1].error = FailureOf(FirstViolated(raw)).error
       /\ \A rule \in Rules :
             validated[1].error = FailureOf(rule).error
             => /\ Violates(raw, rule)
                /\ FailureOf(rule).field = FailureOf(FirstViolated(raw)).field

\* a case variant of the severity, an empty name and no description: three
\* rules violated, the severity is the one reported
C17_Witness ==
    /\ raw = [Type |-> "warning", Name |-> "", Description |-> Absent]
    /\ validated = <<[ok |-> FALSE, error |-> "Invalid type"]>>


\* where a statement first occurs among the steps of call r
Pos(r, step) ==
    CHOOSE i \in DOMAIN steps[r] :
        steps[r][i] = step /\ \A j \in 1..(i - 1) : steps[r][j] /= step

\* if both statements have run, a ran first
Before(r, a, b) ==
    (Times(r, a) > 0 /\ Times(r, b) > 0) => Pos(r, a) < Pos(r, b)

\* b runs only after a has run, once
OnlyAfter(r, a, b) ==
    Times(r, b) > 0 => (Times(r, a) = 1 /\ Pos(r, a) < Pos(r, b))

Accepted(r) == \E severity \in {"Warning", "Info"} : ValidInput(r, severity)
InAll(r) == \E i \in DOMAIN get_all : get_all[i] = r

\* validate, store with the timestamp, decide, then forward or fall back,
\* annotate, acknowledge; what the statements did is there in the state
PipelineOrder(r) ==
    /\ Times(r, "from_dict") = 1 /\ Times(r, "add") = 1
    /\ OnlyAfter(r, "from_dict", "add")
    /\ OnlyAfter(r, "add", "should_forward")
    /\ OnlyAfter(r, "should_forward", "forward")
    /\ OnlyAfter(r, "should_forward", "log")
    /\ Times(r, "forward") + Times(r, "log") <= 1
    /\ OnlyAfter(r, "forward", "forward_returned")
    /\ OnlyAfter(r, "should_forward", "annotate")
    /\ Times(r, "forward") > 0 => OnlyAfter(r, "forward_returned", "annotate")
    /\ OnlyAfter(r, "annotate", "return")
    /\ r \in DOMAIN heap /\ heap[r].received_at /= NoTime
    /\ Times(r, "annotate") <= 1
    /\ Times(r, "annotate") = 1 <=> heap[r].forwarded /= PyNone
    /\ Times(r, "return") = 1 <=> (pc[r] = "created" /\ response[r].code = 201)

\* the forward call of r begins in this step
ForwardBegins(r) == Times(r, "forward") = 0 /\ Times(r, "forward")' = 1

\* C18 as stated: the steps of an accepted event run in the order validate,
\* store, decide, forward or fallback, annotate, acknowledge, the event being
\* in all() when its forward call begins, and the write to warning.log, when
\* there is one, comes before the annotation.
C18_AsClaimed ==
    [][\A r \in Reqs :
          /\ Accepted(r)' => PipelineOrder(r)' /\ Before(r, "log", "annotate")'
          /\ ForwardBegins(r) => InAll(r)' /\ heap'[r].forwarded = PyNone
      ]_vars

\* C18: the steps of an accepted event run in the order validate, store with
\* the timestamp, decide, forward or fallback, annotate, acknowledge; the event
\* is in all(), not yet annotated, when its forward call begins; on the
\* fallback path the flag is written first and the write to warning.log comes
\* after it, before the acknowledgement.
C18_PipelineOrder ==
    [][\A r \in Reqs :
          /\ Accepted(r)' => /\ PipelineOrder(r)'
                             /\ OnlyAfter(r, "annotate", "log")'
                             /\ Before(r, "log", "return")'
          /\ ForwardBegins(r) => InAll(r)' /\ heap'[r].forwarded = PyNone
      ]_vars

\* a Warning with no forwarder: stored, annotated, then written to warning.log
C18_Witness ==
    \E r \in Reqs :
        /\ Completed(r, PyFalse, "no_teams_config")
        /\ steps[r] = <<"json", "from_dict", "add", "should_forward", "annotate", "log", "return">>
        /\ heap[r].forwarded = PyFalse
        /\ AuditLines(r) /= {}


\* the terminal states of an ingestion
InFlight(r) == pc[r] \in {"forwarding", "annotating"}
Terminated(r) == pc[r] \in {"rejected", "created"}
TerminalStates(r) ==
    {state \in {"rejected", "forwarded", "forward_failed", "skipped_by_policy",
                "skipped_no_forwarder"} :
        \/ state = "rejected" /\ pc[r] = "rejected" /\ response[r].code = 400
        \/ state = "forwarded" /\ Completed(r, PyTrue, "success")
        \/ state = "forward_failed" /\ Completed(r, PyFalse, "failed")
        \/ state = "skipped_by_policy" /\ Completed(r, PyFalse, "skipped_info_type")
        \/ state = "skipped_no_forwarder" /\ Completed(r, PyFalse, "no_teams_config")}
FlagSet(r) == r \in DOMAIN heap /\ heap[r].forwarded \in {PyTrue, PyFalse}

\* C19: with every forward call returning and every resumed handler running,
\* an ingestion that has begun ends, in exactly one of the states rejected,
\* forwarded, forward_failed, skipped_by_policy, skipped_no_forwarder, and
\* stays there; every event that was stored gets its flag set to true or
\* false, cleared from the Store or not: a stored event belongs to an
\* ingestion that is in flight or has ended, one in flight ends, and one that
\* has ended has set the flag.
C19_EveryIngestionTerminates ==
    /\ [](\A r \in Reqs :
            /\ pc[r] /= "pending" => (InFlight(r) \/ Terminated(r))
            /\ Terminated(r) => Cardinality(TerminalStates(r)) = 1
            /\ InFlight(r) => r \in DOMAIN heap
            /\ r \in DOMAIN heap => (InFlight(r) \/ (Terminated(r) /\ FlagSet(r))))
    /\ \A r \in Reqs : InFlight(r) ~> Terminated(r)
    /\ [][\A r \in Reqs :
             /\ FlagSet(r) => FlagSet(r)'
             /\ Terminated(r) => Terminated(r)' /\ TerminalStates(r)' = TerminalStates(r)
         ]_vars

\* a forward call that timed out after the Store was cleared: the ingestion
\* has ended as forward_failed and the event's flag is false
C19_Witness ==
    \E r \in Reqs :
        /\ Times(r, "forward_returned") = 1
        /\ TerminalStates(r) = {"forward_failed"}
        /\ FlagSet(r) /\ heap[r].forwarded = PyFalse
        /\ ~InAll(r)


\* event r is in none of the Store's reads
AbsentEverywhere(r) ==
    /\ ~InAll(r)
    /\ \A i \in DOMAIN get_forwarded : get_forwarded[i] /= r
    /\ \A i \in DOMAIN get_ignored : get_ignored[i] /= r

\* C20: when the Store was cleared while the forward call of an event was in
\* flight, the annotation that follows does not put the event back: the step
\* leaves the Store's list, all(), forwarded(), ignored(), count() and the
\* statistics as they were, without the event, the ingestion returns 201 with
\* the tag of the forward result, and the event stays out afterwards.
C20_ClearedStaysCleared ==
    [][\A r \in Reqs :
          /\ (pc[r] = "annotating" /\ pc'[r] = "created" /\ ~InAll(r))
             => /\ notifications' = notifications
                /\ AbsentEverywhere(r)'
                /\ get_all' = get_all
                /\ get_forwarded' = get_forwarded
                /\ get_ignored' = get_ignored
                /\ count' = count
                /\ get_statistics' = get_statistics
                /\ \A filter \in Filters : list_notifications(filter)' = list_notifications(filter)
                /\ heap'[r].forwarded = forwarded[r]
                /\ Completed(r, forwarded[r], forward_status(forwarded[r]))'
          /\ (pc[r] /= "pending" /\ ~InAll(r)) => AbsentEverywhere(r)'
      ]_vars

\* the Store was cleared while the POST of r was out; the POST has returned
\* true and the handler is about to annotate an event the Store no longer has
C20_Witness ==
    \E r \in Reqs :
        /\ pc[r] = "annotating"
        /\ forwarded[r] = PyTrue
        /\ heap[r].forwarded = PyNone
        /\ ~InAll(r)
        /\ ENABLED Annotate(r)


\* the stored events whose flag is unset, and what the statistics leave out
UnsetInStore == WithFlag(PyNone)
Uncounted == get_statistics.total - (get_statistics.forwarded + get_statistics.ignored)

\* C21: when no ingestion is in flight every stored event has its flag true
\* or false and the statistics give forwarded + ignored = total; the two
\* differ only by the stored events whose flag is unset, and each of those
\* belongs to an ingestion that has stored it and has not yet annotated it.
C21_CountsAgreeWhenQuiet ==
    /\ (\A r \in Reqs : ~InFlight(r))
       => /\ \A i \in DOMAIN get_all : heap[get_all[i]].forwarded \in {PyTrue, PyFalse}
          /\ get_statistics.forwarded + get_statistics.ignored = get_statistics.total
    /\ Uncounted = Cardinality(UnsetInStore)
    /\ \A r \in UnsetInStore :
          /\ InFlight(r)
          /\ Times(r, "add") = 1
          /\ Times(r, "annotate") = 0
    /\ Uncounted /= 0 => \E r \in Reqs : InFlight(r) /\ InAll(r)

\* nothing in flight: one Warning was delivered, the POST of another timed
\* out, both are stored and counted, one on each side
C21_Witness ==
    /\ \A r \in Reqs : ~InFlight(r)
    /\ \E r, q \in Reqs :
          /\ InAll(r) /\ InAll(q)
          /\ Times(r, "forward_returned") = 1 /\ heap[r].forwarded = PyTrue
          /\ Times(q, "forward_returned") = 1 /\ heap[q].forwarded = PyFalse
    /\ get_statistics = [total |-> 2, forwarded |-> 1, ignored |-> 1]

====
